---- MODULE Spec2Model ----
(***************************************************************************)
(* Model of the token-issuance program in src/program/src/lib.rs: the      *)
(* instruction decoder (ContractInstruction::unpack), the five handlers    *)
(* (initialize_contract, grant_mint, mint, transfer, burn) and the calls   *)
(* they dispatch to the token ledger.                                      *)
(*                                                                         *)
(* Account buffers and instruction data are sequences of bytes.  A Pubkey  *)
(* is its 32 bytes.  A u64 is kept at full width as four 16-bit limbs,     *)
(* most significant first, because its values exceed 32-bit integers.      *)
(***************************************************************************)
EXTENDS Integers, Sequences, FiniteSets, TLC

VARIABLES
    data,       \* account id -> the bytes of the account's data buffer
    lamports,   \* account id -> the account's balance
    last,       \* the invocation being returned: input, result, calls dispatched
    history,    \* observer: position in an initialise, (grant, mint)* sequence
    follow      \* observer: the grant a buffer still holds, the accounts minted on

vars == <<data, lamports, last, history, follow>>

----------------------------------------------------------------------------
(* Widths *)

PUBKEY_BYTES == 32

U64_BYTES == 8

U32_BYTES == 4

\* One limb of a u64 holds two bytes.
LIMB == 256 * 256

----------------------------------------------------------------------------
(* Bytes and integers *)

Zeros(n) == [i \in 1..n |-> 0]

Take(s, n) == SubSeq(s, 1, n)

Drop(s, n) == SubSeq(s, n + 1, Len(s))

\* Mutant of from_le_bytes: the bytes are read most significant first.
from_le_bytes_be(b) ==
    <<b[1] * 256 + b[2], b[3] * 256 + b[4], b[5] * 256 + b[6], b[7] * 256 + b[8]>>

\* u64::from_le_bytes: eight bytes, least significant first, to a value.
from_le_bytes(b) ==
    <<b[7] + 256 * b[8], b[5] + 256 * b[6], b[3] + 256 * b[4], b[1] + 256 * b[2]>>

\* u64::to_le_bytes, as borsh writes a u64.
to_le_bytes(v) ==
    <<v[4] % 256, v[4] \div 256, v[3] % 256, v[3] \div 256,
      v[2] % 256, v[2] \div 256, v[1] % 256, v[1] \div 256>>

\* A small number as a u64.
U64(n) == <<0, 0, 0, n>>

\* v + 1 on a u64 (the release build wraps at 2^64).
U64Succ(v) ==
    IF v[4] + 1 < LIMB THEN <<v[1], v[2], v[3], v[4] + 1>>
    ELSE IF v[3] + 1 < LIMB THEN <<v[1], v[2], v[3] + 1, 0>>
    ELSE IF v[2] + 1 < LIMB THEN <<v[1], v[2] + 1, 0, 0>>
    ELSE <<(v[1] + 1) % LIMB, 0, 0, 0>>

\* a < b on u64 values.
U64Less(a, b) ==
    \E i \in 1..4 : a[i] < b[i] /\ \A j \in 1..(i - 1) : a[j] = b[j]

U64Leq(a, b) == a = b \/ U64Less(a, b)

\* The u32 length prefix borsh writes before the bytes of a String.
u32_to_le_bytes(n) == <<n % 256, (n \div 256) % 256, (n \div LIMB) % 256, 0>>

\* A u32 read from four little-endian bytes, as two 16-bit limbs <<high, low>>.
u32_from_le_bytes(b) == <<b[3] + 256 * b[4], b[1] + 256 * b[2]>>

----------------------------------------------------------------------------
(* String::from_utf8: the bytes are kept when they are well-formed UTF-8. *)

IsCont(b) == b >= 128 /\ b <= 191

RECURSIVE Utf8Valid(_)
Utf8Valid(s) ==
    IF Len(s) = 0 THEN TRUE
    ELSE LET b == s[1] IN
        IF b < 128 THEN Utf8Valid(Drop(s, 1))
        ELSE IF b >= 194 /\ b <= 223
            THEN Len(s) >= 2 /\ IsCont(s[2]) /\ Utf8Valid(Drop(s, 2))
        ELSE IF b >= 224 /\ b <= 239
            THEN /\ Len(s) >= 3
                 /\ IsCont(s[2]) /\ IsCont(s[3])
                 /\ (b = 224 => s[2] >= 160)
                 /\ (b = 237 => s[2] <= 159)
                 /\ Utf8Valid(Drop(s, 3))
        ELSE IF b >= 240 /\ b <= 244
            THEN /\ Len(s) >= 4
                 /\ IsCont(s[2]) /\ IsCont(s[3]) /\ IsCont(s[4])
                 /\ (b = 240 => s[2] >= 144)
                 /\ (b = 244 => s[2] <= 143)
                 /\ Utf8Valid(Drop(s, 4))
        ELSE FALSE

----------------------------------------------------------------------------
(* Errors a ProgramResult carries *)

Ok == "Ok"

NotAdmin == "NotAdmin"

MintNotPermitted == "MintNotPermitted"

NotTokenOwner == "NotTokenOwner"

InvalidInstruction == "InvalidInstruction"

\* next_account_info on an exhausted iterator.
NotEnoughAccountKeys == "NotEnoughAccountKeys"

AccountNotRentExempt == "AccountNotRentExempt"

\* Rent::from_account_info on an account that is not the rent sysvar.
InvalidArgument == "InvalidArgument"

\* A borsh read or write that failed (io::Error into ProgramError).
BorshIoError == "BorshIoError"

\* The ledger's instruction builder refused the program id.
IncorrectProgramId == "IncorrectProgramId"

\* invoke returned the ledger's failure.
LedgerError == "LedgerError"

----------------------------------------------------------------------------
(* The persisted structures and their borsh encoding *)

ContractStateSize == PUBKEY_BYTES + U64_BYTES

\* ContractState::try_from_slice: a Pubkey, a u64, and no byte left over.
ContractState_try_from_slice(buf) ==
    IF Len(buf) # ContractStateSize THEN [ok |-> FALSE]
    ELSE [ok |-> TRUE,
          contract_owner |-> Take(buf, PUBKEY_BYTES),
          last_token_id |-> from_le_bytes(Drop(buf, PUBKEY_BYTES))]

\* The bytes ContractState::serialize writes.
ContractState_bytes(s) == s.contract_owner \o to_le_bytes(s.last_token_id)

\* The bytes MintPermission::serialize writes: each String is a u32 length
\* and then its bytes.
\* Mutant of MintPermission_bytes: the user is written after the strings.
MintPermission_bytes_user_last(p) ==
    u32_to_le_bytes(Len(p.game_id)) \o p.game_id
        \o u32_to_le_bytes(Len(p.token_uri)) \o p.token_uri \o p.user

MintPermission_bytes(p) ==
    p.user \o u32_to_le_bytes(Len(p.game_id)) \o p.game_id
           \o u32_to_le_bytes(Len(p.token_uri)) \o p.token_uri

\* borsh reading one String at the head of s.
ReadString(s) ==
    IF Len(s) < U32_BYTES THEN [ok |-> FALSE]
    ELSE LET n    == u32_from_le_bytes(Take(s, U32_BYTES))
             rest == Drop(s, U32_BYTES)
         IN IF n[1] # 0 \/ n[2] > Len(rest) THEN [ok |-> FALSE]
            ELSE IF ~Utf8Valid(Take(rest, n[2])) THEN [ok |-> FALSE]
            ELSE [ok |-> TRUE, value |-> Take(rest, n[2]), rest |-> Drop(rest, n[2])]

\* Mutant of MintPermission_try_from_slice: only the user is read; what
\* follows it is not looked at.
MintPermission_user_only(buf) ==
    IF Len(buf) < PUBKEY_BYTES THEN [ok |-> FALSE]
    ELSE [ok |-> TRUE, user |-> Take(buf, PUBKEY_BYTES),
          game_id |-> <<>>, token_uri |-> <<>>]

\* MintPermission::try_from_slice: a Pubkey, two Strings, and no byte left over.
MintPermission_try_from_slice(buf) ==
    IF Len(buf) < PUBKEY_BYTES THEN [ok |-> FALSE]
    ELSE LET g == ReadString(Drop(buf, PUBKEY_BYTES)) IN
        IF ~g.ok THEN [ok |-> FALSE]
        ELSE LET t == ReadString(g.rest) IN
            IF ~t.ok THEN [ok |-> FALSE]
            ELSE IF Len(t.rest) # 0 THEN [ok |-> FALSE]
            ELSE [ok |-> TRUE, user |-> Take(buf, PUBKEY_BYTES),
                  game_id |-> g.value, token_uri |-> t.value]

\* value.serialize(&mut &mut data[..]): the bytes are copied into the front
\* of the buffer for as long as they fit; a value longer than the buffer is an
\* error after the part that fits has been written.
serialize_into(buf, bytes) ==
    [ok |-> Len(bytes) <= Len(buf),
     data |-> [i \in 1..Len(buf) |-> IF i <= Len(bytes) THEN bytes[i] ELSE buf[i]]]

----------------------------------------------------------------------------
(* ContractInstruction::unpack *)

\* Mutant of unpack_pubkey: a short input is padded with zeros.
unpack_pubkey_padded(input) ==
    [ok |-> TRUE, value |-> Take(input \o Zeros(PUBKEY_BYTES), PUBKEY_BYTES),
     rest |-> IF Len(input) < PUBKEY_BYTES THEN <<>> ELSE Drop(input, PUBKEY_BYTES)]

unpack_pubkey(input) ==
    IF Len(input) < PUBKEY_BYTES THEN [ok |-> FALSE]
    ELSE [ok |-> TRUE, value |-> Take(input, PUBKEY_BYTES),
          rest |-> Drop(input, PUBKEY_BYTES)]

unpack_u64(input) ==
    IF Len(input) < U64_BYTES THEN [ok |-> FALSE]
    ELSE [ok |-> TRUE, value |-> from_le_bytes(Take(input, U64_BYTES)),
          rest |-> Drop(input, U64_BYTES)]

\* Mutant of unpack_string: the string is one byte long at most.
unpack_string_one_byte(input) ==
    LET length == IF Len(input) = 0 THEN 0 ELSE 1 IN
    IF ~Utf8Valid(Take(input, length)) THEN [ok |-> FALSE]
    ELSE [ok |-> TRUE, value |-> Take(input, length), rest |-> Drop(input, length)]

\* Takes every remaining byte as the string.
unpack_string(input) ==
    LET length == Len(input) IN
    IF ~Utf8Valid(Take(input, length)) THEN [ok |-> FALSE]
    ELSE [ok |-> TRUE, value |-> Take(input, length), rest |-> Drop(input, length)]

\* Mutant of Invalid: what does not decode is taken for a burn of nothing.
Invalid_as_burn == [ok |-> TRUE, variant |-> "Burn", token_id |-> U64(0)]

Invalid == [ok |-> FALSE, variant |-> "None"]

unpack(input) ==
    IF Len(input) = 0 THEN Invalid
    ELSE LET variant == input[1]
             rest    == Drop(input, 1)
         IN
        IF variant = 0 THEN
            LET owner == unpack_pubkey(rest) IN
            IF ~owner.ok THEN Invalid
            ELSE [ok |-> TRUE, variant |-> "InitializeContract", owner |-> owner.value]
        ELSE IF variant = 1 THEN
            LET user == unpack_pubkey(rest) IN
            IF ~user.ok THEN Invalid
            ELSE LET game_id == unpack_string(user.rest) IN
                IF ~game_id.ok THEN Invalid
                ELSE LET token_uri == unpack_string(game_id.rest) IN
                    IF ~token_uri.ok THEN Invalid
                    ELSE [ok |-> TRUE, variant |-> "GrantMint", user |-> user.value,
                          game_id |-> game_id.value, token_uri |-> token_uri.value]
        ELSE IF variant = 2 THEN
            LET receiver == unpack_pubkey(rest) IN
            IF ~receiver.ok THEN Invalid
            ELSE LET game_id == unpack_string(receiver.rest) IN
                IF ~game_id.ok THEN Invalid
                ELSE [ok |-> TRUE, variant |-> "Mint", receiver |-> receiver.value,
                      game_id |-> game_id.value]
        ELSE IF variant = 3 THEN
            LET token_id == unpack_u64(rest) IN
            IF ~token_id.ok THEN Invalid
            ELSE LET owner == unpack_pubkey(token_id.rest) IN
                IF ~owner.ok THEN Invalid
                ELSE LET receiver == unpack_pubkey(owner.rest) IN
                    IF ~receiver.ok THEN Invalid
                    ELSE [ok |-> TRUE, variant |-> "Transfer", token_id |-> token_id.value,
                          owner |-> owner.value, receiver |-> receiver.value]
        ELSE IF variant = 4 THEN
            LET token_id == unpack_u64(rest) IN
            IF ~token_id.ok THEN Invalid
            ELSE [ok |-> TRUE, variant |-> "Burn", token_id |-> token_id.value]
        ELSE Invalid

----------------------------------------------------------------------------
(* The accounts the host can supply *)

PubkeyOf(b) == [i \in 1..PUBKEY_BYTES |-> b]

\* solana_program::sysvar::rent::id()
RentId ==
    <<6, 167, 213, 23, 25, 44, 92, 81, 33, 140, 201, 76, 61, 74, 241, 127,
      88, 218, 238, 8, 155, 161, 253, 68, 227, 219, 217, 138, 0, 0, 0, 0>>

\* The rent sysvar's parameters (the cluster defaults).
Rent == [lamports_per_byte_year |-> 3480, exemption_threshold |-> 2]

\* Mutant of is_exempt: the data length is left out of the minimum balance.
is_exempt_overhead_only(balance, data_len) ==
    balance >= 128 * Rent.lamports_per_byte_year * Rent.exemption_threshold

\* Rent::is_exempt: the balance covers minimum_balance(data_len); every
\* account is charged for 128 bytes of overhead besides its data.
is_exempt(balance, data_len) ==
    balance >= (128 + data_len) * Rent.lamports_per_byte_year * Rent.exemption_threshold

\* The rent sysvar's account data: Rent as bincode writes it (a u64, an f64
\* and a u8).
RentData == <<152, 13, 0, 0, 0, 0, 0, 0, 0, 0, 0, 0, 0, 0, 0, 64, 50>>

\* minimum_balance(ContractStateSize) under Rent.
ContractMinimumBalance ==
    (128 + ContractStateSize) * Rent.lamports_per_byte_year * Rent.exemption_threshold

\* "contract": the storage account, of ContractState size; "wallet": a funded
\* account without data; "system": the system program's account, whose key is
\* Pubkey::default(); "rent": the rent sysvar.
AccountIds == {"contract", "wallet", "system", "rent"}

Key(a) ==
    CASE a = "contract" -> PubkeyOf(1)
      [] a = "wallet"   -> PubkeyOf(3)
      [] a = "system"   -> PubkeyOf(0)
      [] a = "rent"     -> RentId

Lamports(a) == lamports[a]

\* The balances the host can have given the accounts: the storage account
\* holds the rent-exempt minimum or one lamport less.
FreshLamports ==
    {[a \in AccountIds |->
        CASE a = "contract" -> c
          [] a = "wallet"   -> 5000000
          [] a = "system"   -> 1
          [] a = "rent"     -> 1009200] :
     c \in {ContractMinimumBalance - 1, ContractMinimumBalance}}

\* Account data as the host creates it: zero-filled, but for the sysvar.
FreshData(a) ==
    CASE a = "contract" -> Zeros(ContractStateSize)
      [] a = "wallet"   -> <<>>
      [] a = "system"   -> <<>>
      [] a = "rent"     -> RentData

----------------------------------------------------------------------------
(* The calls handed to invoke *)

\* What the ledger side of a call can do: build and accept the instruction,
\* refuse to build it, or fail when invoked.
LedgerOutcomes == {"ok", "refused", "failed"}

\* spl_token::instruction::mint_to(program_id, mint, account, owner, &[], 1)
\* with the account infos handed to invoke and the data they hold then.
mint_to_call(d, mint_account, receiver_account, contract_account) ==
    [kind |-> "mint_to", mint |-> Key(mint_account), account |-> Key(receiver_account),
     owner |-> Key(contract_account), amount |-> U64(1),
     account_infos |-> <<mint_account, receiver_account, contract_account>>,
     seen |-> <<d[mint_account], d[receiver_account], d[contract_account]>>]

\* spl_token::instruction::transfer(program_id, source, destination, authority, &[], 1)
transfer_call(d, owner_account, receiver_account) ==
    [kind |-> "transfer", source |-> Key(owner_account),
     destination |-> Key(receiver_account), authority |-> Key(owner_account),
     amount |-> U64(1),
     account_infos |-> <<owner_account, receiver_account, owner_account>>,
     seen |-> <<d[owner_account], d[receiver_account], d[owner_account]>>]

\* spl_token::instruction::burn(program_id, account, mint, authority, &[], token_id)
\* called with the mint's key first and the owner's key second.
burn_call(d, owner_account, mint_account, token_id) ==
    [kind |-> "burn", account |-> Key(mint_account), mint |-> Key(owner_account),
     authority |-> Key(owner_account), amount |-> token_id,
     account_infos |-> <<mint_account, owner_account, owner_account>>,
     seen |-> <<d[mint_account], d[owner_account], d[owner_account]>>]

\* Mutant of dispatch: the call is handed to invoke twice.
dispatch_twice(d, call, ledger) ==
    IF ledger = "refused" THEN [result |-> IncorrectProgramId, data |-> d, calls |-> <<>>]
    ELSE [result |-> IF ledger = "ok" THEN Ok ELSE LedgerError,
          data |-> d, calls |-> <<call, call>>]

\* The builder's `?` and then invoke's `?`.
dispatch(d, call, ledger) ==
    IF ledger = "refused" THEN [result |-> IncorrectProgramId, data |-> d, calls |-> <<>>]
    ELSE [result |-> IF ledger = "ok" THEN Ok ELSE LedgerError,
          data |-> d, calls |-> <<call>>]

\* An early return: nothing written by this step, nothing dispatched.
Err(d, e) == [result |-> e, data |-> d, calls |-> <<>>]

----------------------------------------------------------------------------
(* The handlers.  d is the data of every account before the handler runs,  *)
(* accounts the list of account ids supplied, ledger what the ledger side  *)
(* of a dispatched call does.  Each yields the ProgramResult, the data     *)
(* afterwards and the calls handed to invoke.                              *)

\* Mutant of initialized_state: the owner of the instruction is not stored.
initialized_state_owner_kept(contract_state, owner) ==
    [contract_owner |-> contract_state.contract_owner, last_token_id |-> U64(0)]

\* The state initialize_contract writes back.
initialized_state(contract_state, owner) ==
    [contract_owner |-> owner, last_token_id |-> U64(0)]

initialize_contract(d, accounts, owner) ==
    IF Len(accounts) < 2 THEN Err(d, NotEnoughAccountKeys)
    ELSE LET contract_account == accounts[1] IN
        IF Key(accounts[2]) # RentId THEN Err(d, InvalidArgument)
        ELSE IF ~is_exempt(Lamports(contract_account), Len(d[contract_account]))
            THEN Err(d, AccountNotRentExempt)
        ELSE LET contract_state == ContractState_try_from_slice(d[contract_account]) IN
            IF ~contract_state.ok THEN Err(d, BorshIoError)
            ELSE LET written == serialize_into(d[contract_account],
                        ContractState_bytes(initialized_state(contract_state, owner)))
                 IN [result |-> IF written.ok THEN Ok ELSE BorshIoError,
                     data |-> [d EXCEPT ![contract_account] = written.data],
                     calls |-> <<>>]

\* Mutant of is_admin: the comparison is left out.
is_admin_unchecked(contract_state, admin_key) == TRUE

\* contract_state.contract_owner != *admin_account.key, negated.
is_admin(contract_state, admin_key) == contract_state.contract_owner = admin_key

grant_mint(d, accounts, user, game_id, token_uri) ==
    IF Len(accounts) < 2 THEN Err(d, NotEnoughAccountKeys)
    ELSE LET contract_account == accounts[1]
             admin_account    == accounts[2]
             contract_state   == ContractState_try_from_slice(d[contract_account])
         IN
        IF ~contract_state.ok THEN Err(d, BorshIoError)
        ELSE IF ~is_admin(contract_state, Key(admin_account)) THEN Err(d, NotAdmin)
        ELSE LET mint_permission ==
                     [user |-> user, game_id |-> game_id, token_uri |-> token_uri]
                 written == serialize_into(d[contract_account],
                                           MintPermission_bytes(mint_permission))
             IN [result |-> IF written.ok THEN Ok ELSE BorshIoError,
                 data |-> [d EXCEPT ![contract_account] = written.data],
                 calls |-> <<>>]

\* Mutant of mint_permitted: the game_id is not compared.
mint_permitted_any_game(mint_permission, contract_key, game_id) ==
    mint_permission.user = contract_key

\* mint_permission.user != *contract_account.key || mint_permission.game_id != game_id,
\* negated.
mint_permitted(mint_permission, contract_key, game_id) ==
    mint_permission.user = contract_key /\ mint_permission.game_id = game_id

\* Mutant of mint_commit: the ledger is called first and the state is written
\* back only when the call succeeded.
mint_commit_ledger_first(d, accounts, contract_state, ledger) ==
    LET contract_account == accounts[1]
        token_id == U64Succ(contract_state.last_token_id)
        written  == serialize_into(d[contract_account],
                        ContractState_bytes([contract_owner |-> contract_state.contract_owner,
                                             last_token_id |-> token_id]))
        out == dispatch(d, mint_to_call(d, accounts[2], accounts[3], contract_account), ledger)
    IN IF out.result # Ok THEN out
       ELSE [out EXCEPT !.result = IF written.ok THEN Ok ELSE BorshIoError,
                        !.data = [d EXCEPT ![contract_account] = written.data]]

\* mint after its checks: count, write the state back, then call the ledger.
mint_commit(d, accounts, contract_state, ledger) ==
    LET contract_account == accounts[1]
        mint_account     == accounts[2]
        receiver_account == accounts[3]
        token_id == U64Succ(contract_state.last_token_id)
        written  == serialize_into(d[contract_account],
                        ContractState_bytes([contract_owner |-> contract_state.contract_owner,
                                             last_token_id |-> token_id]))
        d1 == [d EXCEPT ![contract_account] = written.data]
    IN IF ~written.ok THEN Err(d1, BorshIoError)
       ELSE dispatch(d1, mint_to_call(d1, mint_account, receiver_account, contract_account),
                     ledger)

mint(d, accounts, receiver, game_id, ledger) ==
    IF Len(accounts) < 3 THEN Err(d, NotEnoughAccountKeys)
    ELSE LET contract_account == accounts[1]
             contract_state   == ContractState_try_from_slice(d[contract_account])
             mint_permission  == MintPermission_try_from_slice(d[contract_account])
         IN
        IF ~contract_state.ok THEN Err(d, BorshIoError)
        ELSE IF ~mint_permission.ok THEN Err(d, BorshIoError)
        ELSE IF ~mint_permitted(mint_permission, Key(contract_account), game_id)
            THEN Err(d, MintNotPermitted)
        ELSE mint_commit(d, accounts, contract_state, ledger)

\* Mutant of is_token_owner: the comparison is inverted.
is_token_owner_inverted(owner_key, owner) == owner_key # owner

\* *owner_account.key != owner, negated.
is_token_owner(owner_key, owner) == owner_key = owner

\* Mutant of transfer: with one account supplied, the owner's account is
\* taken for the receiver's as well.
transfer_default_receiver(d, accounts, token_id, owner, receiver, ledger) ==
    IF Len(accounts) < 1 THEN Err(d, NotEnoughAccountKeys)
    ELSE LET owner_account    == accounts[1]
             receiver_account == IF Len(accounts) < 2 THEN accounts[1] ELSE accounts[2]
         IN
        IF ~is_token_owner(Key(owner_account), owner) THEN Err(d, NotTokenOwner)
        ELSE dispatch(d, transfer_call(d, owner_account, receiver_account), ledger)

transfer(d, accounts, token_id, owner, receiver, ledger) ==
    IF Len(accounts) < 2 THEN Err(d, NotEnoughAccountKeys)
    ELSE LET owner_account    == accounts[1]
             receiver_account == accounts[2]
         IN
        IF ~is_token_owner(Key(owner_account), owner) THEN Err(d, NotTokenOwner)
        ELSE dispatch(d, transfer_call(d, owner_account, receiver_account), ledger)

\* Mutant of burn: the burnt quantity is recorded in account[0]'s stored
\* state before the call.
burn_recorded(d, accounts, token_id, ledger) ==
    IF Len(accounts) < 2 THEN Err(d, NotEnoughAccountKeys)
    ELSE LET owner_account  == accounts[1]
             mint_account   == accounts[2]
             contract_state == ContractState_try_from_slice(d[owner_account])
         IN
        IF ~contract_state.ok THEN Err(d, BorshIoError)
        ELSE LET d1 == [d EXCEPT ![owner_account] =
                        ContractState_bytes(
                            [contract_owner |-> contract_state.contract_owner,
                             last_token_id |-> token_id])]
             IN dispatch(d1, burn_call(d1, owner_account, mint_account, token_id), ledger)

burn(d, accounts, token_id, ledger) ==
    IF Len(accounts) < 2 THEN Err(d, NotEnoughAccountKeys)
    ELSE LET owner_account == accounts[1]
             mint_account  == accounts[2]
         IN dispatch(d, burn_call(d, owner_account, mint_account, token_id), ledger)

\* The entry point: decode, then the handler of the variant.
process_instruction(d, accounts, instruction_data, ledger) ==
    LET instruction == unpack(instruction_data) IN
    IF ~instruction.ok THEN Err(d, InvalidInstruction)
    ELSE CASE instruction.variant = "InitializeContract" ->
                initialize_contract(d, accounts, instruction.owner)
           [] instruction.variant = "GrantMint" ->
                grant_mint(d, accounts, instruction.user, instruction.game_id,
                           instruction.token_uri)
           [] instruction.variant = "Mint" ->
                mint(d, accounts, instruction.receiver, instruction.game_id, ledger)
           [] instruction.variant = "Transfer" ->
                transfer(d, accounts, instruction.token_id, instruction.owner,
                         instruction.receiver, ledger)
           [] instruction.variant = "Burn" ->
                burn(d, accounts, instruction.token_id, ledger)

----------------------------------------------------------------------------
(* The invocations the host submits *)

MaxTrailing == 1

MaxRounds == 2

\* n bytes appended to instruction data.
Pad(n) == [i \in 1..n |-> 7]

InstrKeys == {Key("contract"), Key("wallet")}

\* "", "a", a five-byte string with a two-byte character, and two byte strings
\* that are not UTF-8.
Strings == {<<>>, <<97>>, <<195, 169, 98, 99, 100>>, <<255>>, <<97, 195>>}

\* 0, 5, 256 and u64::MAX as little-endian bytes.
TokenIdBytes ==
    {Zeros(U64_BYTES), <<5, 0, 0, 0, 0, 0, 0, 0>>, <<0, 1, 0, 0, 0, 0, 0, 0>>,
     [i \in 1..U64_BYTES |-> 255]}

FixedWidthData ==
    {<<0>> \o k : k \in InstrKeys}
    \cup {<<3>> \o t \o k1 \o k2 :
            t \in {<<5, 0, 0, 0, 0, 0, 0, 0>>}, k1 \in InstrKeys, k2 \in InstrKeys}
    \cup {<<4>> \o t : t \in TokenIdBytes}

StringData ==
    {<<1>> \o k \o g : k \in InstrKeys, g \in Strings}
    \cup {<<2>> \o Key("wallet") \o g : g \in Strings}

InstructionData ==
    {x \o Pad(n) : x \in FixedWidthData \cup StringData, n \in 0..MaxTrailing}
    \cup {Take(x, Len(x) - 1) : x \in FixedWidthData}
    \cup {<<1>> \o Take(Key("wallet"), PUBKEY_BYTES - 1), <<0>>, <<1>>, <<2>>}
    \cup {<<>>, <<5>> \o Key("wallet"), <<255>>}

\* Every list of at most two accounts, and the lists of three whose receiver
\* is the wallet.
AccountLists ==
    {<<>>}
    \cup {<<a>> : a \in AccountIds}
    \cup {<<a, b>> : a \in AccountIds, b \in AccountIds}
    \cup {<<a, b, "wallet">> : a \in AccountIds, b \in AccountIds}

----------------------------------------------------------------------------
(* State machine *)

Idle == [result |-> "Idle"]

NoGrant == [account |-> "none", user |-> <<>>]

NoFollow == [granted |-> NoGrant, minted |-> {}]

NoHistory == [initialized |-> FALSE, account |-> "none", phase |-> "off", rounds |-> 0]

Init ==
    /\ data = [a \in AccountIds |-> FreshData(a)]
    /\ lamports \in FreshLamports
    /\ last = Idle
    /\ history = NoHistory
    /\ follow = NoFollow

\* The observer: whether a contract was ever initialised, and how many rounds
\* of (successful GrantMint, successful Mint) have followed the latest
\* successful InitializeContract with no other invocation in between.
Observe(h, variant, accounts, result) ==
    LET off == [h EXCEPT !.account = "none", !.phase = "off", !.rounds = 0] IN
    IF result # Ok THEN off
    ELSE IF variant = "InitializeContract"
        THEN [initialized |-> TRUE, account |-> accounts[1], phase |-> "ready", rounds |-> 0]
    ELSE IF variant = "GrantMint" /\ h.phase = "ready" /\ h.account = accounts[1]
        THEN [h EXCEPT !.phase = "granted"]
    ELSE IF /\ variant = "Mint" /\ h.phase = "granted" /\ h.account = accounts[1]
            /\ h.rounds < MaxRounds
        THEN [h EXCEPT !.phase = "ready", !.rounds = h.rounds + 1]
    ELSE off

\* The second observer.  granted: the account and the user of the latest
\* successful GrantMint, for as long as that account's buffer is as the
\* GrantMint left it.  minted: the accounts on which a Mint has succeeded with
\* no successful GrantMint or InitializeContract on them since.
Track(f, instruction, accounts, d, out) ==
    LET succeeded(v) == instruction.ok /\ instruction.variant = v /\ out.result = Ok IN
    [granted |->
        IF succeeded("GrantMint")
            THEN [account |-> accounts[1], user |-> instruction.user]
        ELSE IF /\ f.granted.account # "none"
                /\ out.data[f.granted.account] = d[f.granted.account]
            THEN f.granted
        ELSE NoGrant,
     minted |->
        IF succeeded("Mint") THEN f.minted \cup {accounts[1]}
        ELSE IF succeeded("GrantMint") \/ succeeded("InitializeContract")
            THEN f.minted \ {accounts[1]}
        ELSE f.minted]

\* One invocation of the entry point, run to its return.
Run(instruction_data, accounts, ledger) ==
    LET out == process_instruction(data, accounts, instruction_data, ledger) IN
    /\ data' = out.data
    /\ last' = [instruction_data |-> instruction_data, accounts |-> accounts,
                result |-> out.result, pre |-> data, calls |-> out.calls,
                before |-> follow]
    /\ history' = Observe(history, unpack(instruction_data).variant, accounts, out.result)
    /\ follow' = Track(follow, unpack(instruction_data), accounts, data, out)
    /\ UNCHANGED lamports

InitializeContract ==
    /\ last = Idle
    /\ \E instruction_data \in InstructionData, accounts \in AccountLists :
        /\ unpack(instruction_data).variant = "InitializeContract"
        /\ Run(instruction_data, accounts, "ok")

GrantMint ==
    /\ last = Idle
    /\ \E instruction_data \in InstructionData, accounts \in AccountLists :
        /\ unpack(instruction_data).variant = "GrantMint"
        /\ Run(instruction_data, accounts, "ok")

Mint ==
    /\ last = Idle
    /\ \E instruction_data \in InstructionData, accounts \in AccountLists,
          ledger \in LedgerOutcomes :
        /\ unpack(instruction_data).variant = "Mint"
        /\ Run(instruction_data, accounts, ledger)

Transfer ==
    /\ last = Idle
    /\ \E instruction_data \in InstructionData, accounts \in AccountLists,
          ledger \in LedgerOutcomes :
        /\ unpack(instruction_data).variant = "Transfer"
        /\ Run(instruction_data, accounts, ledger)

Burn ==
    /\ last = Idle
    /\ \E instruction_data \in InstructionData, accounts \in AccountLists,
          ledger \in LedgerOutcomes :
        /\ unpack(instruction_data).variant = "Burn"
        /\ Run(instruction_data, accounts, ledger)

\* Instruction data that does not decode.
Undecodable ==
    /\ last = Idle
    /\ \E instruction_data \in InstructionData, accounts \in AccountLists :
        /\ ~unpack(instruction_data).ok
        /\ Run(instruction_data, accounts, "ok")

\* The invocation has returned to the host; the next one may begin.
Return ==
    /\ last # Idle
    /\ last' = Idle
    /\ UNCHANGED <<data, lamports, history, follow>>

Next ==
    \/ InitializeContract
    \/ GrantMint
    \/ Mint
    \/ Transfer
    \/ Burn
    \/ Undecodable
    \/ Return

Spec == Init /\ [][Next]_vars

----------------------------------------------------------------------------
(* Vocabulary of the properties *)

\* An invocation has run and is being returned.
Active == last # Idle

\* The instruction the latest invocation decoded.
Instruction == unpack(last.instruction_data)

Variant == Instruction.variant

\* The account supplied at position n (from 0) of the latest invocation.
Account(n) == last.accounts[n + 1]

\* The latest invocation supplied at least n accounts.
Supplies(n) == Len(last.accounts) >= n

\* A buffer read as ContractState.
StateIn(buf) == ContractState_try_from_slice(buf)

\* The storage account's buffer read as ContractState, before the latest
\* invocation and now.
StoredBefore == StateIn(last.pre["contract"])

StoredNow == StateIn(data["contract"])

----------------------------------------------------------------------------
(* C1 - C10 *)

\* C1: across every sequence of invocations the persisted last_token_id, read
\* as the ContractState in the storage account, never decreases from one
\* invocation to the next.  Refuted: initialize_contract and
\* grant_mint reset it.
C1_LastTokenIdNeverDecreases ==
    Active => U64Leq(StoredBefore.last_token_id, StoredNow.last_token_id)

\* C2: once an InitializeContract has succeeded, no later invocation changes
\* the persisted contract_owner.  Refuted: a second
\* InitializeContract or a GrantMint overwrites it.
C2_OwnerSetOnce ==
    [][history.initialized =>
        StateIn(data'["contract"]).contract_owner = StateIn(data["contract"]).contract_owner]_vars

\* C3: after a successful InitializeContract followed by N rounds of
\* (successful GrantMint, successful Mint) the persisted last_token_id is N.
\* Refuted at N = 2: the code leaves 1 after every round.
C3_LastTokenIdCountsRounds ==
    history.phase = "ready" =>
        StateIn(data[history.account]).last_token_id = U64(history.rounds)

\* C4: a GrantMint whose account[1] key differs from the contract_owner
\* persisted in account[0] fails with NotAdmin and leaves account[0]'s buffer
\* (and every other buffer) as it was.
C4_Case ==
    /\ Active /\ Variant = "GrantMint" /\ Supplies(2)
    /\ StateIn(last.pre[Account(0)]).ok
    /\ Key(Account(1)) # StateIn(last.pre[Account(0)]).contract_owner

C4_GrantMintNotAdmin ==
    C4_Case => last.result = NotAdmin /\ data = last.pre

C4_Witness ==
    /\ C4_Case
    /\ last.result = NotAdmin
    /\ StoredBefore.contract_owner = Key("wallet")
    /\ Account(0) = "contract" /\ Account(1) = "contract"

\* C5: a Mint (with the three accounts Mint reads) on an account[0] that
\* holds a MintPermission whose user differs from account[0]'s key or whose
\* game_id differs from the instruction's fails with MintNotPermitted, leaves
\* last_token_id as it was and dispatches no ledger call.
C5_Case ==
    /\ Active /\ Variant = "Mint" /\ Supplies(3)
    /\ MintPermission_try_from_slice(last.pre[Account(0)]).ok
    /\ \/ MintPermission_try_from_slice(last.pre[Account(0)]).user # Key(Account(0))
       \/ MintPermission_try_from_slice(last.pre[Account(0)]).game_id # Instruction.game_id

C5_MintNotPermitted ==
    C5_Case =>
        /\ last.result = MintNotPermitted
        /\ StateIn(data[Account(0)]).last_token_id
             = StateIn(last.pre[Account(0)]).last_token_id
        /\ data = last.pre
        /\ last.calls = <<>>

\* The user matches and only the game_id differs.
C5_Witness ==
    /\ C5_Case
    /\ last.result = MintNotPermitted
    /\ MintPermission_try_from_slice(last.pre[Account(0)]).user = Key(Account(0))
    /\ Instruction.game_id # <<>>

\* C6: a Transfer (with the two accounts Transfer reads) whose account[0] key
\* differs from the instruction's owner fails with NotTokenOwner and
\* dispatches no ledger call; when the keys are equal NotTokenOwner is never
\* returned.
C6_Mismatch ==
    /\ Active /\ Variant = "Transfer" /\ Supplies(2)
    /\ Key(Account(0)) # Instruction.owner

C6_TransferNotTokenOwner ==
    /\ C6_Mismatch => last.result = NotTokenOwner /\ last.calls = <<>>
    /\ (Active /\ Variant = "Transfer" /\ Supplies(1)
            /\ Key(Account(0)) = Instruction.owner)
        => last.result # NotTokenOwner

C6_Witness ==
    /\ C6_Mismatch
    /\ last.result = NotTokenOwner
    /\ Account(1) = "wallet"

\* C7: an invocation that returns an error leaves account[0]'s buffer as it
\* was before the invocation.  Refuted: a failed serialize and a failed ledger
\* call leave their writes in place.
C7_AllOrNothing ==
    (Active /\ last.result # Ok /\ Supplies(1)) =>
        data[Account(0)] = last.pre[Account(0)]

\* C8: a Mint writes the incremented last_token_id into account[0]'s buffer
\* before it dispatches the ledger call (the call sees it), and when the
\* ledger side fails the buffer is left holding the incremented value.
C8_LedgerFailed ==
    /\ Active /\ Variant = "Mint"
    /\ last.result \in {LedgerError, IncorrectProgramId}

C8_MintWriteNotRolledBack ==
    /\ (Active /\ Variant = "Mint" /\ last.calls # <<>>) =>
          StateIn(last.calls[1].seen[3]).last_token_id
            = U64Succ(StateIn(last.pre[Account(0)]).last_token_id)
    /\ C8_LedgerFailed =>
          /\ StateIn(data[Account(0)]).last_token_id
               = U64Succ(StateIn(last.pre[Account(0)]).last_token_id)
          /\ data[Account(0)] # last.pre[Account(0)]

C8_Witness ==
    /\ C8_LedgerFailed
    /\ last.result = LedgerError
    /\ last.calls # <<>>
    /\ StoredBefore.last_token_id = U64(0)
    /\ StoredNow.last_token_id = U64(1)

\* C9: a successful Mint, Transfer or Burn dispatches exactly one ledger call
\* of its kind (mint_to and transfer with amount 1); InitializeContract and
\* GrantMint, and every invocation that fails decoding or an authorization
\* check, dispatch none.
C9_OneLedgerCall ==
    Active =>
        /\ (last.result = Ok /\ Variant = "Mint") =>
              /\ Len(last.calls) = 1
              /\ last.calls[1].kind = "mint_to"
              /\ last.calls[1].amount = U64(1)
        /\ (last.result = Ok /\ Variant = "Transfer") =>
              /\ Len(last.calls) = 1
              /\ last.calls[1].kind = "transfer"
              /\ last.calls[1].amount = U64(1)
        /\ (last.result = Ok /\ Variant = "Burn") =>
              /\ Len(last.calls) = 1
              /\ last.calls[1].kind = "burn"
        /\ Variant \in {"InitializeContract", "GrantMint"} => last.calls = <<>>
        /\ last.result \in {InvalidInstruction, NotAdmin, MintNotPermitted, NotTokenOwner}
              => last.calls = <<>>

C9_Witness ==
    /\ Active /\ Variant = "Transfer" /\ last.result = Ok
    /\ Len(last.calls) = 1
    /\ last.calls[1].kind = "transfer"

\* C10: InitializeContract{owner: A}, decoded from [0x00, 32 bytes of A], on a
\* rent-exempt account[0] (by the rent sysvar in account[1]) whose buffer is a
\* fresh zeroed buffer of ContractState size succeeds and leaves the buffer
\* holding contract_owner = A and last_token_id = 0.
C10_Case ==
    /\ Active /\ Variant = "InitializeContract" /\ Supplies(2)
    /\ Key(Account(1)) = RentId
    /\ is_exempt(lamports[Account(0)], Len(last.pre[Account(0)]))
    /\ last.pre[Account(0)] = Zeros(ContractStateSize)

C10_InitializeFresh ==
    C10_Case =>
        /\ last.result = Ok
        /\ StateIn(data[Account(0)]).ok
        /\ StateIn(data[Account(0)]).contract_owner
             = SubSeq(last.instruction_data, 2, 1 + PUBKEY_BYTES)
        /\ StateIn(data[Account(0)]).last_token_id = U64(0)

C10_Witness ==
    /\ C10_Case
    /\ last.result = Ok
    /\ StoredNow.contract_owner = Key("wallet")
    /\ Len(last.instruction_data) = 1 + PUBKEY_BYTES

----------------------------------------------------------------------------
(* C11 - C20 *)

\* C11: an InitializeContract (with the rent sysvar as account[1]) whose
\* account[0] balance is below the rent-exempt minimum for its data length
\* fails with AccountNotRentExempt and leaves every buffer as it was, whatever
\* owner the instruction names.
C11_Case ==
    /\ Active /\ Variant = "InitializeContract" /\ Supplies(2)
    /\ Key(Account(1)) = RentId
    /\ lamports[Account(0)] <
         (128 + Len(last.pre[Account(0)]))
            * Rent.lamports_per_byte_year * Rent.exemption_threshold

C11_NotRentExempt ==
    C11_Case => last.result = AccountNotRentExempt /\ data = last.pre

\* The storage account one lamport short of the minimum.
C11_Witness ==
    /\ C11_Case
    /\ last.result = AccountNotRentExempt
    /\ Account(0) = "contract"
    /\ Instruction.owner = Key("wallet")

\* C12: a Burn{token_id} invocation with two accounts checks no authority and
\* leaves storage alone; the one burn call it hands to the ledger has the raw
\* token_id as quantity and names account[1] as the mint and account[0] as
\* both the token account and the authority.  Stated for the invocations whose
\* call was built (the builder's own refusal dispatches nothing).  The source
\* passes account[1]'s key in the builder's token-account position and
\* account[0]'s key in its mint position, so this does not hold.
C12_Case ==
    /\ Active /\ Variant = "Burn" /\ Supplies(2)
    /\ last.result \in {Ok, LedgerError}
C12_BurnCall ==
    C12_Case =>
        /\ data = last.pre
        /\ Len(last.calls) = 1
        /\ last.calls[1].kind = "burn"
        /\ last.calls[1].amount = Instruction.token_id
        /\ last.calls[1].mint = Key(Account(1))
        /\ last.calls[1].account = Key(Account(0))
        /\ last.calls[1].authority = Key(Account(0))

\* C13 as written: every tag-1 buffer with fewer than 40 bytes ahead of its
\* string is rejected.  The user key ends at byte 33 and the string starts
\* there, so a tag-1 buffer of 33 to 39 bytes has fewer than 40 bytes ahead of
\* any string it carries.
C13_Below40 ==
    /\ Active /\ Len(last.instruction_data) >= 1
    /\ last.instruction_data[1] = 1
    /\ Len(last.instruction_data) < 40
    => ~Instruction.ok /\ last.result = InvalidInstruction

\* C13, amended: a tag-0 or tag-1 buffer of fewer than 33 bytes in all (the tag
\* and a 32-byte key) is rejected with InvalidInstruction, and a tag-1 buffer
\* of 33 bytes or more decodes exactly when the bytes after the key are UTF-8.
C13_Short ==
    /\ Active /\ Len(last.instruction_data) >= 1
    /\ last.instruction_data[1] \in {0, 1}
    /\ Len(last.instruction_data) < 1 + PUBKEY_BYTES
C13_ShortKeyRejected ==
    /\ C13_Short => ~Instruction.ok /\ last.result = InvalidInstruction
    /\ /\ Active /\ Len(last.instruction_data) >= 1 + PUBKEY_BYTES
       /\ last.instruction_data[1] = 1
       => (Instruction.ok <=> Utf8Valid(Drop(last.instruction_data, 1 + PUBKEY_BYTES)))
C13_Witness ==
    /\ C13_Short
    /\ last.instruction_data[1] = 1
    /\ Len(last.instruction_data) = PUBKEY_BYTES
    /\ last.result = InvalidInstruction
    /\ Supplies(2)

\* C14: the empty buffer and every buffer whose first byte is not one of
\* 0, 1, 2, 3, 4 fail to decode, whatever follows the first byte; the
\* invocation returns InvalidInstruction, storage is as before and nothing is
\* handed to the ledger.
C14_Case ==
    /\ Active
    /\ \/ Len(last.instruction_data) = 0
       \/ last.instruction_data[1] \notin 0..4
C14_UnknownTagRejected ==
    C14_Case =>
        /\ ~Instruction.ok
        /\ last.result = InvalidInstruction
        /\ data = last.pre
        /\ last.calls = <<>>
C14_Witness ==
    /\ C14_Case
    /\ last.instruction_data = <<5>> \o Key("wallet")
    /\ last.accounts = <<"contract", "wallet">>
    /\ last.result = InvalidInstruction
    /\ StoredBefore.ok

\* The u64 whose little-endian bytes are instruction bytes from..from+7
\* (counted from 0, the tag being byte 0).
LittleEndianAt(from) ==
    LET b == [i \in 1..U64_BYTES |-> last.instruction_data[from + i]] IN
    <<b[7] + 256 * b[8], b[5] + 256 * b[6], b[3] + 256 * b[4], b[1] + 256 * b[2]>>

\* Instruction bytes from..to, counted from 0.
BytesAt(from, to) == SubSeq(last.instruction_data, from + 1, to + 1)

\* The width of the variant's fixed fields, tag included.
FixedWidth(tag) == CASE tag = 0 -> 33 [] tag = 3 -> 73 [] tag = 4 -> 9

\* C15: a tag-0 buffer of 33 bytes or more decodes to InitializeContract with
\* owner = bytes 1..32; a tag-3 buffer of 73 bytes or more to Transfer with
\* token_id = bytes 1..8 little-endian, owner = bytes 9..40 and receiver =
\* bytes 41..72; a tag-4 buffer of 9 bytes or more to Burn with token_id =
\* bytes 1..8 little-endian; and the decoding is that of the fixed-width
\* prefix alone, so bytes after it change nothing.
C15_Case ==
    /\ Active /\ Len(last.instruction_data) >= 1
    /\ last.instruction_data[1] \in {0, 3, 4}
    /\ Len(last.instruction_data) >= FixedWidth(last.instruction_data[1])
C15_TrailingBytesIgnored ==
    C15_Case =>
        LET tag == last.instruction_data[1] IN
        /\ Instruction.ok
        /\ Instruction = unpack(Take(last.instruction_data, FixedWidth(tag)))
        /\ tag = 0 =>
            /\ Instruction.variant = "InitializeContract"
            /\ Instruction.owner = BytesAt(1, 32)
        /\ tag = 3 =>
            /\ Instruction.variant = "Transfer"
            /\ Instruction.token_id = LittleEndianAt(1)
            /\ Instruction.owner = BytesAt(9, 40)
            /\ Instruction.receiver = BytesAt(41, 72)
        /\ tag = 4 =>
            /\ Instruction.variant = "Burn"
            /\ Instruction.token_id = LittleEndianAt(1)
C15_Witness ==
    /\ C15_Case
    /\ last.instruction_data[1] = 3
    /\ Len(last.instruction_data) > FixedWidth(3)
    /\ Instruction.token_id = U64(5)
    /\ Instruction.owner # Instruction.receiver

\* C16: every tag-1 buffer that decodes gives a GrantMint whose user is bytes
\* 1..32, whose game_id is every byte after the user and whose token_uri is
\* the empty string.
C16_Case ==
    /\ Active /\ Len(last.instruction_data) >= 1
    /\ last.instruction_data[1] = 1
    /\ Instruction.ok
C16_TokenUriEmpty ==
    C16_Case =>
        /\ Instruction.variant = "GrantMint"
        /\ Instruction.user = BytesAt(1, 32)
        /\ Instruction.game_id = Drop(last.instruction_data, 1 + PUBKEY_BYTES)
        /\ Instruction.token_uri = <<>>
C16_Witness ==
    /\ C16_Case
    /\ Len(Instruction.game_id) = 6
    /\ Instruction.token_uri = <<>>

\* A GrantMint with its two accounts, on an account whose buffer is as a
\* successful GrantMint left it.
C17_Following ==
    /\ Active /\ Variant = "GrantMint" /\ Supplies(2)
    /\ last.before.granted.account = Account(0)

\* C17 as written: the following GrantMint succeeds exactly when account[1]'s
\* key is the user granted before.  A GrantMint by that user with a game_id
\* that is not empty does not fit the buffer and returns an error.
C17_FollowingGrantExactly ==
    C17_Following =>
        (last.result = Ok <=> Key(Account(1)) = last.before.granted.user)

\* C17, amended: after a successful GrantMint{user} the buffer read as
\* ContractState has contract_owner = user and last_token_id = 0; a following
\* GrantMint is refused with NotAdmin exactly when account[1]'s key is not
\* that user, and succeeds exactly when it is that user and the instruction's
\* game_id is empty.
C17_GrantReplacesAdmin ==
    /\ Active /\ Variant = "GrantMint" /\ last.result = Ok =>
        /\ StateIn(data[Account(0)]).ok
        /\ StateIn(data[Account(0)]).contract_owner = Instruction.user
        /\ StateIn(data[Account(0)]).last_token_id = U64(0)
    /\ C17_Following =>
        /\ last.result = NotAdmin <=> Key(Account(1)) # last.before.granted.user
        /\ last.result = Ok <=>
            /\ Key(Account(1)) = last.before.granted.user
            /\ Instruction.game_id = <<>>
C17_Witness ==
    /\ C17_Following
    /\ last.result = Ok
    /\ history.initialized
    /\ last.before.granted.user = Key("contract")
    /\ Instruction.user = Key("wallet")

\* C18: a Mint succeeds only when account[0]'s buffer decodes in full both as
\* a ContractState and as a MintPermission, with the stored last_token_id 0
\* and the instruction's game_id empty; it leaves last_token_id = 1; and a
\* Mint on an account where a Mint has succeeded, with no successful
\* GrantMint or InitializeContract on it since, does not succeed.
C18_SuccessfulMint ==
    Active /\ Variant = "Mint" /\ last.result = Ok
C18_MintOnlyOnce ==
    /\ C18_SuccessfulMint =>
        /\ Supplies(3)
        /\ StateIn(last.pre[Account(0)]).ok
        /\ MintPermission_try_from_slice(last.pre[Account(0)]).ok
        /\ StateIn(last.pre[Account(0)]).last_token_id = U64(0)
        /\ Instruction.game_id = <<>>
        /\ StateIn(data[Account(0)]).last_token_id = U64(1)
    /\ /\ Active /\ Variant = "Mint" /\ Supplies(1)
       /\ Account(0) \in last.before.minted
       => last.result # Ok
C18_Witness ==
    /\ Active /\ Variant = "Mint" /\ Supplies(3)
    /\ Account(0) \in last.before.minted
    /\ Instruction.game_id = <<>>
    /\ last.result = BorshIoError
    /\ StateIn(last.pre[Account(0)]).last_token_id = U64(1)

\* A call without the account data that travels with it.
Named(call) == [call EXCEPT !.seen = <<>>]

\* The latest invocation returns the same result and names the same calls
\* when every account buffer is replaced by a freshly created one.
BlindToStorage ==
    LET fresh == [a \in AccountIds |-> FreshData(a)] IN
    \E ledger \in LedgerOutcomes :
        LET out == process_instruction(fresh, last.accounts, last.instruction_data, ledger)
        IN /\ out.result = last.result
           /\ out.data = fresh
           /\ Len(out.calls) = Len(last.calls)
           /\ \A i \in 1..Len(out.calls) : Named(out.calls[i]) = Named(last.calls[i])

\* C19: a Transfer or a Burn, succeeding or failing, writes no account buffer
\* (contract_owner and last_token_id are afterwards what they were) and reads
\* none: its result and its calls do not depend on what the buffers hold.
C19_Case ==
    Active /\ Variant \in {"Transfer", "Burn"}
C19_StorageUntouched ==
    C19_Case => data = last.pre /\ BlindToStorage
C19_Witness ==
    /\ C19_Case
    /\ Variant = "Burn" /\ Supplies(2)
    /\ Account(0) = "contract"
    /\ history.initialized
    /\ StoredBefore.ok
    /\ StoredBefore.contract_owner = Key("contract")
    /\ StoredBefore.last_token_id = U64(1)
    /\ last.result = Ok

\* The number of accounts a variant's handler takes from the list.
AccountsRead(variant) == IF variant = "Mint" THEN 3 ELSE 2

\* C20: a decoded instruction given fewer accounts than its handler takes
\* (three for Mint, two for the others) returns NotEnoughAccountKeys with
\* every buffer as before and no call handed to the ledger.
C20_Case ==
    /\ Active /\ Instruction.ok
    /\ Len(last.accounts) < AccountsRead(Variant)
C20_TooFewAccounts ==
    C20_Case =>
        /\ last.result = NotEnoughAccountKeys
        /\ data = last.pre
        /\ last.calls = <<>>
C20_Witness ==
    /\ C20_Case
    /\ Variant = "Transfer"
    /\ last.accounts = <<"wallet">>
    /\ Instruction.owner = Key("wallet")
    /\ last.result = NotEnoughAccountKeys

====
